---- MODULE Spec2Model ----
(***************************************************************************)
(* Model of the scrape service of main.ts: the shared persistent browser   *)
(* context (getPersistentContext), the POST /api/scrape handler with every *)
(* await as a suspension point, and the synchronous extraction and         *)
(* classification of links and images from the captured markup.            *)
(*                                                                         *)
(* main.ts holds two versions of the server (lines 1-246 and 247-481).     *)
(* They differ in one place that matters here: the second wraps the title  *)
(* read and the challenge wait in try { } catch {} (lines 363-369).  The   *)
(* variable `variant` says which of the two is running.                    *)
(*                                                                         *)
(* JavaScript strings are TLA+ strings; the string methods the code calls  *)
(* are computed character by character with Len and SubSeq.                *)
(*                                                                         *)
(* Three specifications: Spec, the server with NReq requests in flight, on *)
(* three documents; SpecFair, Spec with every browser operation completing *)
(* or failing in the end; SpecExtract, the extraction alone, one loop turn *)
(* at a time, on every document of at most MaxNodes elements in MaxBlocks  *)
(* content blocks.                                                         *)
(***************************************************************************)
EXTENDS Integers, Sequences, FiniteSets, TLC

(***************************************************************************)
(* Bounds                                                                  *)
(***************************************************************************)
\* number of POST /api/scrape requests that may be in flight together
NReq == 2

\* number of a and img elements in the content blocks of a document
MaxNodes == 2

\* number of content blocks (.cPost_contentWrap) of a document
MaxBlocks == 2

(***************************************************************************)
(* String methods                                                          *)
(***************************************************************************)
Max(a, b) == IF a >= b THEN a ELSE b

Char(s, i) == SubSeq(s, i, i)

\* String.prototype.startsWith
StartsWith(s, p) == Len(p) <= Len(s) /\ SubSeq(s, 1, Len(p)) = p

\* String.prototype.endsWith
EndsWith(s, e) == Len(e) <= Len(s) /\ SubSeq(s, Len(s) - Len(e) + 1, Len(s)) = e

\* String.prototype.includes
Includes(s, sub) ==
    \E i \in 1..(Len(s) - Len(sub) + 1) : SubSeq(s, i, i + Len(sub) - 1) = sub

\* index of the first character of s that is in the set cs, 0 when there is none
IndexOfAny(s, cs) ==
    LET hits == {i \in 1..Len(s) : Char(s, i) \in cs}
    IN  IF hits = {} THEN 0 ELSE CHOOSE i \in hits : \A j \in hits : i <= j

\* index of the last character of s that is in the set cs, 0 when there is none
LastIndexOfAny(s, cs) ==
    LET hits == {i \in 1..Len(s) : Char(s, i) \in cs}
    IN  IF hits = {} THEN 0 ELSE CHOOSE i \in hits : \A j \in hits : i >= j

UpperChars == "ABCDEFGHIJKLMNOPQRSTUVWXYZ"
LowerChars == "abcdefghijklmnopqrstuvwxyz"

LowerChar(c) ==
    LET k == IndexOfAny(UpperChars, {c})
    IN  IF k = 0 THEN c ELSE Char(LowerChars, k)

RECURSIVE ToLowerCase(_)
\* String.prototype.toLowerCase
ToLowerCase(s) ==
    IF Len(s) = 0 THEN ""
    ELSE LowerChar(Char(s, 1)) \o ToLowerCase(SubSeq(s, 2, Len(s)))

WhiteSpace == {" ", "\t", "\n", "\r"}

\* String.prototype.trim
Trim(s) ==
    LET keep == {i \in 1..Len(s) : Char(s, i) \notin WhiteSpace}
    IN  IF keep = {} THEN ""
        ELSE SubSeq(s, CHOOSE i \in keep : \A j \in keep : i <= j,
                       CHOOSE i \in keep : \A j \in keep : i >= j)

\* s.split('?')[0]
BeforeQuery(s) ==
    LET q == IndexOfAny(s, {"?"})
    IN  IF q = 0 THEN s ELSE SubSeq(s, 1, q - 1)

\* s.slice(-5)
SliceLast5(s) == SubSeq(s, Max(Len(s) - 4, 1), Len(s))

\* Array.prototype.includes on a list of strings
InList(list, x) == \E i \in 1..Len(list) : list[i] = x

\* the push without its includes test
PushUnique_Always(list, x) == Append(list, x)

\* the guarded insertion at the front of the list (unshift)
PushUnique_Front(list, x) == IF InList(list, x) THEN list ELSE <<x>> \o list

\* if (!list.includes(x)) list.push(x)
PushUnique(list, x) == IF InList(list, x) THEN list ELSE Append(list, x)

(***************************************************************************)
(* Configuration data                                                      *)
(***************************************************************************)
ALLOWED_PREFIXES == <<"http://dropmms.co", "https://dropmms.co", "https://videmms24.com">>

zipDomains == <<"upfiles.com", "file-upload.org", "zapupload.top", "frdl.io">>

videoDomains == <<"strmup.cc", "luluvid.com", "vidnest.io", "vidoza.net",
                  "streamtape.com", "vinovo.to", "up4fun.top">>

imageExtensions == <<".jpg", ".jpeg", ".png", ".gif", ".webp">>

\* the two phrases of the challenge test on the page title
ChallengeSignatures == <<"Just a moment", "Attention Required">>

(***************************************************************************)
(* new URL(href).hostname                                                  *)
(*                                                                         *)
(* The WHATWG URL parser as far as the hostname goes, for an input with no *)
(* base URL: a scheme ending in ":" is required; for http and https any    *)
(* run of slashes is skipped, the authority runs to the next "/", "\",     *)
(* "?" or "#", credentials (up to the last "@") and a numeric port are     *)
(* dropped, and an empty host, a host with a forbidden character or a      *)
(* non-numeric port is a failure (new URL throws TypeError).  IPv6         *)
(* literals and percent-escapes are not modelled.                          *)
(***************************************************************************)
CharsOf(s) == {Char(s, i) : i \in 1..Len(s)}

SchemeChars == CharsOf("abcdefghijklmnopqrstuvwxyz0123456789+-.")

DigitChars == CharsOf("0123456789")

ForbiddenHostChars == {" ", "#", "/", "<", ">", "?", "@", "[", "\\", "]", "^", "|", ":"}

UrlFailure == [ok |-> FALSE, hostname |-> ""]

UrlHost(h) == [ok |-> TRUE, hostname |-> h]

\* host of an authority: credentials and port removed, validity checked
HostOfAuthority(auth, emptyAllowed) ==
    LET at       == LastIndexOfAny(auth, {"@"})
        hostport == SubSeq(auth, at + 1, Len(auth))
        colon    == IndexOfAny(hostport, {":"})
        host     == IF colon = 0 THEN hostport ELSE SubSeq(hostport, 1, colon - 1)
        port     == IF colon = 0 THEN "" ELSE SubSeq(hostport, colon + 1, Len(hostport))
    IN  IF (host = "" /\ ~emptyAllowed)
           \/ CharsOf(host) \cap ForbiddenHostChars # {}
           \/ ~(CharsOf(port) \subseteq DigitChars)
        THEN UrlFailure
        ELSE UrlHost(ToLowerCase(host))

\* the part of s before the first character in cs (all of s when there is none)
Before(s, cs) ==
    LET e == IndexOfAny(s, cs)
    IN  IF e = 0 THEN s ELSE SubSeq(s, 1, e - 1)

\* s without its leading characters in cs
SkipLeading(s, cs) ==
    LET rest == {i \in 1..Len(s) : Char(s, i) \notin cs}
    IN  IF rest = {} THEN ""
        ELSE SubSeq(s, CHOOSE i \in rest : \A j \in rest : i <= j, Len(s))

ParseUrl(href) ==
    LET c == IndexOfAny(href, {":"})
    IN  IF c <= 1 THEN UrlFailure
        ELSE LET scheme == ToLowerCase(SubSeq(href, 1, c - 1))
                 rest   == SubSeq(href, c + 1, Len(href))
             IN  IF ~(CharsOf(scheme) \subseteq SchemeChars)
                       \/ Char(scheme, 1) \in DigitChars \cup {"+", "-", "."}
                 THEN UrlFailure
                 ELSE IF scheme \in {"http", "https"}
                 THEN HostOfAuthority(
                          Before(SkipLeading(rest, {"/", "\\"}), {"/", "\\", "?", "#"}),
                          FALSE)
                 ELSE IF StartsWith(rest, "//")
                 THEN HostOfAuthority(
                          Before(SubSeq(rest, 3, Len(rest)), {"/", "?", "#"}), TRUE)
                 ELSE UrlHost("")

(***************************************************************************)
(* The parsed document (cheerio.load(html)) as far as the selectors of the *)
(* handler look at it.  An attribute is <<>> when absent and <<value>>     *)
(* when present.                                                           *)
(*   h1     : the h1.ipsType_pageTitle elements, each with its text() and  *)
(*            the text() of its first "span.ipsContained span"             *)
(*   blocks : the .cPost_contentWrap elements in document order, each the  *)
(*            sequence of its a and img descendants in document order;     *)
(*            parentHref of an img is the href of closest('a[href]')       *)
(***************************************************************************)
NoAttr == <<>>

Anchor(href) ==
    [tag |-> "a", href |-> href, src |-> NoAttr, dataSrc |-> NoAttr, parentHref |-> NoAttr]

Img(src, dataSrc, parentHref) ==
    [tag |-> "img", href |-> NoAttr, src |-> src, dataSrc |-> dataSrc,
     parentHref |-> parentHref]

\* attr(name) || ''
AttrOrEmpty(a) == IF a = NoAttr THEN "" ELSE a[1]

\* a string in some entry of list occurs in hostname: list.some(d => hostname.includes(d))
SomeIncluded(list, hostname) == \E i \in 1..Len(list) : Includes(hostname, list[i])

\* imageExtensions.some(e => ext.endsWith(e))
HasImageExtension(ext) == \E i \in 1..Len(imageExtensions) : EndsWith(ext, imageExtensions[i])

\* x.toLowerCase().split('?')[0].slice(-5)
ExtensionWindow(x) == SliceLast5(BeforeQuery(ToLowerCase(x)))

\* $wrap.find('a[href^="http"]') with the trimmed, non-empty href of each
LinksOf(block) ==
    LET sel   == SelectSeq(block, LAMBDA n : /\ n.tag = "a"
                                             /\ n.href # NoAttr
                                             /\ StartsWith(n.href[1], "http"))
        hrefs == [i \in 1..Len(sel) |-> Trim(AttrOrEmpty(sel[i].href))]
    IN  SelectSeq(hrefs, LAMBDA h : h # "")

\* the turn with the video hosts tested before the file hosts
ClassifyLink_VideoFirst(href, acc) ==
    LET u == ParseUrl(href)
    IN  IF ~u.ok THEN [acc EXCEPT !.threw = TRUE]
        ELSE IF SomeIncluded(videoDomains, u.hostname)
        THEN [acc EXCEPT !.videos = PushUnique(acc.videos, href)]
        ELSE IF SomeIncluded(zipDomains, u.hostname)
        THEN [acc EXCEPT !.zips = PushUnique(acc.zips, href)]
        ELSE acc

\* one turn of links.forEach: new URL throws on a malformed href
ClassifyLink(href, acc) ==
    LET u == ParseUrl(href)
    IN  IF ~u.ok THEN [acc EXCEPT !.threw = TRUE]
        ELSE IF SomeIncluded(zipDomains, u.hostname)
        THEN [acc EXCEPT !.zips = PushUnique(acc.zips, href)]
        ELSE IF SomeIncluded(videoDomains, u.hostname)
        THEN [acc EXCEPT !.videos = PushUnique(acc.videos, href)]
        ELSE acc

RECURSIVE ClassifyLinks(_, _, _)
\* links.forEach(...) from link i on; an exception ends the loop
ClassifyLinks(links, i, acc) ==
    IF i > Len(links) \/ acc.threw THEN acc
    ELSE ClassifyLinks(links, i + 1, ClassifyLink(links[i], acc))

\* the turn without the look at the enclosing anchor
CaptureImage_NoUpgrade(img, acc) ==
    LET src == IF AttrOrEmpty(img.src) # "" THEN AttrOrEmpty(img.src)
               ELSE AttrOrEmpty(img.dataSrc)
    IN  IF ~StartsWith(src, "http") THEN acc
        ELSE IF ~HasImageExtension(ExtensionWindow(src)) THEN acc
        ELSE [acc EXCEPT !.images = PushUnique(acc.images, src)]

\* one turn of $wrap.find('img').each
CaptureImage(img, acc) ==
    LET src == IF AttrOrEmpty(img.src) # "" THEN AttrOrEmpty(img.src)
               ELSE AttrOrEmpty(img.dataSrc)
    IN  IF ~StartsWith(src, "http") THEN acc
        ELSE IF ~HasImageExtension(ExtensionWindow(src)) THEN acc
        ELSE LET parentHref == Trim(AttrOrEmpty(img.parentHref))
                 finalSrc   == IF img.parentHref # NoAttr
                                  /\ HasImageExtension(ExtensionWindow(parentHref))
                               THEN parentHref ELSE src
             IN  [acc EXCEPT !.images = PushUnique(acc.images, finalSrc)]

RECURSIVE CaptureImages(_, _, _)
CaptureImages(imgs, i, acc) ==
    IF i > Len(imgs) THEN acc
    ELSE CaptureImages(imgs, i + 1, CaptureImage(imgs[i], acc))

\* the body of contentWraps.each for one block
ExtractBlock(block, acc) ==
    LET linked == ClassifyLinks(LinksOf(block), 1, acc)
    IN  IF linked.threw THEN linked
        ELSE CaptureImages(SelectSeq(block, LAMBDA n : n.tag = "img"), 1, linked)

RECURSIVE ExtractBlocks(_, _, _)
ExtractBlocks(blocks, i, acc) ==
    IF i > Len(blocks) \/ acc.threw THEN acc
    ELSE ExtractBlocks(blocks, i + 1, ExtractBlock(blocks[i], acc))

\* the title without the fallback to the text of the heading
ExtractTitle_NoFallback(doc) ==
    LET spans == SelectSeq(doc.h1, LAMBDA h : h.span # NoAttr)
        t1    == IF spans = <<>> THEN "" ELSE Trim(spans[1].span[1])
    IN  IF t1 # "" THEN t1 ELSE "Untitled Thread"

\* the title: first nested span, else the heading, else the default
ExtractTitle(doc) ==
    LET spans == SelectSeq(doc.h1, LAMBDA h : h.span # NoAttr)
        t1    == IF spans = <<>> THEN "" ELSE Trim(spans[1].span[1])
        t2    == IF doc.h1 = <<>> THEN "" ELSE Trim(doc.h1[1].text)
    IN  IF t1 # "" THEN t1 ELSE IF t2 # "" THEN t2 ELSE "Untitled Thread"

\* everything between cheerio.load and the response: the result, or threw
Extract(doc) ==
    LET acc == ExtractBlocks(doc.blocks, 1,
                   [threw |-> FALSE, videos |-> <<>>, images |-> <<>>, zips |-> <<>>])
    IN  [threw |-> acc.threw, title |-> ExtractTitle(doc),
         videos |-> acc.videos, images |-> acc.images, zips |-> acc.zips]

(***************************************************************************)
(* Inputs                                                                  *)
(***************************************************************************)
\* a JavaScript value of req.body.url
JsUndefined == [kind |-> "undefined", str |-> "", num |-> 0]
JsNull      == [kind |-> "null", str |-> "", num |-> 0]
JsObject    == [kind |-> "object", str |-> "", num |-> 0]
JsNumber(n) == [kind |-> "number", str |-> "", num |-> n]
JsString(s) == [kind |-> "string", str |-> s, num |-> 0]

\* typeof v
TypeOf(v) == IF v.kind = "null" THEN "object" ELSE v.kind

\* the truthiness of v, as !v reads it
Truthy(v) ==
    CASE v.kind = "number" -> v.num # 0
      [] v.kind = "string" -> v.str # ""
      [] v.kind = "object" -> TRUE
      [] OTHER             -> FALSE

\* the url values requests are sent with
Bodies ==
    {JsUndefined, JsNull, JsNumber(7), JsString(""),
     JsString("https://evil.example/t/1"), JsString("see https://dropmms.co/t/1"),
     JsString("https://dropmms.co/t/1")}

\* the titles page.title() may return
Titles == {"Just a moment...", "Attention Required! | Cloudflare", "Leaked set - Forum"}

\* the messages a rejected browser operation may carry
Messages == {"", "Timeout 60000ms exceeded"}

DocThread ==
    [h1     |-> <<[text |-> " Thread one ", span |-> <<"Thread one">>]>>,
     blocks |-> << << Anchor(<<"https://upfiles.com/f/1">>),
                      Anchor(<<"https://vidoza.net/v/1">>),
                      Anchor(<<"https://x.com/a-full.png">>),
                      Img(<<"https://x.com/a.png">>, NoAttr, <<"https://x.com/a-full.png">>) >>,
                   << Anchor(<<"https://vidoza.net/v/1">>),
                      Img(NoAttr, <<"https://x.com/b.jpg?w=9">>, NoAttr) >> >>]

\* a file-host link to a picture, with its thumbnail inside the anchor
DocOverlap ==
    [h1     |-> <<[text |-> "Pics", span |-> NoAttr]>>,
     blocks |-> << << Anchor(<<"https://upfiles.com/pic.jpg">>),
                      Img(<<"https://upfiles.com/pic_t.jpg">>, NoAttr,
                          <<"https://upfiles.com/pic.jpg">>) >> >>]

\* an anchor whose href starts with http and is no URL, between two good links
DocMalformed ==
    [h1     |-> <<>>,
     blocks |-> << << Anchor(<<"https://upfiles.com/f/2">>),
                      Anchor(<<"http://">>),
                      Anchor(<<"https://vidoza.net/v/2">>) >> >>]

\* the documents page.content() may return
Pages == {DocThread, DocOverlap, DocMalformed}

\* what the extraction makes of each of them
Extracted == [d \in Pages |-> Extract(d)]

(***************************************************************************)
(* State                                                                   *)
(***************************************************************************)
VARIABLES
    variant,            \* 1: server of lines 1-246, 2: server of lines 247-481
    persistentContext,  \* the module-level session: 0 (null) or the instance
    initScripted,       \* the instances addInitScript has completed on
    launched,           \* the requests that invoked launchPersistentContext
    pc,                 \* per request: the await it is suspended at
    url,                \* per request: req.body.url
    context,            \* per request: what getPersistentContext returned (0: nothing)
    page,               \* per request: "none", "open" or "closed"
    pageTitle,          \* per request: <<>> or <<the title read>>
    html,               \* per request: <<>> or <<the document captured>>
    hist,               \* per request: the operations it has started, in order
    failedAt,           \* per request: the operations of it that rejected
    resp,               \* per request: the response sent (status 0: none yet)
    dom,                \* the extraction followed step by step: the document ($)
    step,               \* its position: "off", "title", "wrap", "links", "imgs",
                        \* "sent" (200) or "threw" (500)
    wrapIndex,          \* the index of the content block contentWraps.each is at
    elemIndex,          \* the index of the link, of the img, the inner loop is at
    blockLinks,         \* the links array of the block
    lists,              \* videos, images and zips, and whether new URL threw
    threadTitle         \* <<>> or <<the title extracted>>

\* the state of the server
svars == <<variant, persistentContext, initScripted, launched, pc, url, context,
           page, pageTitle, html, hist, failedAt, resp>>

\* the state of the extraction followed step by step
xvars == <<dom, step, wrapIndex, elemIndex, blockLinks, lists, threadTitle>>

vars == <<svars, xvars>>

Req == 1..NReq

\* a session instance is named by the request whose launch call made it
NoSession == 0

NoResponse == [status |-> 0, body |-> [none |-> TRUE]]

\* a document with nothing the selectors match
DocEmpty == [h1 |-> <<>>, blocks |-> <<>>]

NoLists == [threw |-> FALSE, videos |-> <<>>, images |-> <<>>, zips |-> <<>>]

\* no extraction is followed step by step
ExtractionOff ==
    /\ dom = DocEmpty
    /\ step = "off"
    /\ wrapIndex = 0
    /\ elemIndex = 0
    /\ blockLinks = <<>>
    /\ lists = NoLists
    /\ threadTitle = <<>>

Init ==
    /\ ExtractionOff
    /\ variant \in {1, 2}
    /\ persistentContext = NoSession
    /\ initScripted = {}
    /\ launched = {}
    /\ pc = [r \in Req |-> "idle"]
    /\ url = [r \in Req |-> JsUndefined]
    /\ context = [r \in Req |-> NoSession]
    /\ page = [r \in Req |-> "none"]
    /\ pageTitle = [r \in Req |-> <<>>]
    /\ html = [r \in Req |-> <<>>]
    /\ hist = [r \in Req |-> <<>>]
    /\ failedAt = [r \in Req |-> <<>>]
    /\ resp = [r \in Req |-> NoResponse]

(***************************************************************************)
(* The handler                                                             *)
(***************************************************************************)
\* the validation without its typeof test
UrlInvalid_NoTypeTest(u) == ~Truthy(u)

\* !url || typeof url !== 'string'
UrlInvalid(u) == ~Truthy(u) \/ TypeOf(u) # "string"

\* the allow-list test with includes in the place of startsWith
UrlAllowed_Includes(s) == \E i \in 1..Len(ALLOWED_PREFIXES) : Includes(s, ALLOWED_PREFIXES[i])

\* ALLOWED_PREFIXES.some(prefix => url.startsWith(prefix))
UrlAllowed(s) == \E i \in 1..Len(ALLOWED_PREFIXES) : StartsWith(s, ALLOWED_PREFIXES[i])

\* the challenge wait taken whatever the title
IsChallenge_Always(t) == Len(t) >= 0

\* the challenge test with its first phrase only
IsChallenge_FirstPhrase(t) == Includes(t, ChallengeSignatures[1])

\* pageTitle.includes('Just a moment') || pageTitle.includes('Attention Required')
IsChallenge(t) == \E i \in 1..Len(ChallengeSignatures) : Includes(t, ChallengeSignatures[i])

\* error.message || 'Internal error'
Details(msg) == IF msg # "" THEN msg ELSE "Internal error"

\* the rejection is caught by the empty catch around the title read and the wait
Swallowed(v, op) == v = 2 /\ op \in {"title", "challengeWait"}

\* res.status(status).json(body)
Respond(r, status, body) ==
    /\ pc' = [pc EXCEPT ![r] = "done"]
    /\ resp' = [resp EXCEPT ![r] = [status |-> status, body |-> body]]

\* the catch block that logs the error and sends nothing
Catch_Silent(r, msg) ==
    /\ pc' = [pc EXCEPT ![r] = "done"]
    /\ UNCHANGED resp

\* the catch block of the handler
Catch(r, msg) ==
    Respond(r, 500, [error |-> "Failed to scrape page", details |-> Details(msg)])

\* request r starts operation op and is suspended at its await
Start(r, op) ==
    /\ pc' = [pc EXCEPT ![r] = op]
    /\ hist' = [hist EXCEPT ![r] = Append(@, op)]

\* the operations a request may be suspended at
Operations ==
    {"launchPersistentContext", "addInitScript", "newPage", "goto", "title",
     "challengeWait", "settle", "scroll", "settle2", "content", "close"}

\* !persistentContext
SessionMissing == persistentContext = NoSession

\* The handler up to its first await: validation, then getPersistentContext up to
\* its own first await (the launch) or, with a session at hand, its return and
\* the newPage call.  Requests are numbered in their order of arrival.
Receive(r, u) ==
    /\ pc[r] = "idle"
    /\ IF r = 1 THEN TRUE ELSE pc[r - 1] # "idle"
    /\ url' = [url EXCEPT ![r] = u]
    /\ IF UrlInvalid(u)
       THEN /\ Respond(r, 400, [error |-> "Missing or invalid \"url\""])
            /\ UNCHANGED <<launched, context, hist>>
       ELSE IF ~UrlAllowed(u.str)
       THEN /\ Respond(r, 403, [error |-> "Only dropmms.co / videmms24.com URLs allowed"])
            /\ UNCHANGED <<launched, context, hist>>
       ELSE IF SessionMissing
       THEN /\ launched' = launched \cup {r}
            /\ Start(r, "launchPersistentContext")
            /\ UNCHANGED <<context, resp>>
       ELSE /\ context' = [context EXCEPT ![r] = persistentContext]
            /\ Start(r, "newPage")
            /\ UNCHANGED <<launched, resp>>
    /\ UNCHANGED <<xvars, variant, persistentContext, initScripted, page, pageTitle, html,
                   failedAt>>

\* launchPersistentContext resolves: the assignment, then the addInitScript call
LaunchOk(r) ==
    /\ pc[r] = "launchPersistentContext"
    /\ persistentContext' = r
    /\ Start(r, "addInitScript")
    /\ UNCHANGED <<xvars, variant, initScripted, launched, url, context, page, pageTitle, html,
                   failedAt, resp>>

\* addInitScript resolves: return persistentContext, then the newPage call
InitScriptOk(r) ==
    /\ pc[r] = "addInitScript"
    /\ initScripted' = initScripted \cup {r}
    /\ context' = [context EXCEPT ![r] = persistentContext]
    /\ Start(r, "newPage")
    /\ UNCHANGED <<xvars, variant, persistentContext, launched, url, page, pageTitle, html,
                   failedAt, resp>>

\* newPage resolves: the goto call
NewPageOk(r) ==
    /\ pc[r] = "newPage"
    /\ page' = [page EXCEPT ![r] = "open"]
    /\ Start(r, "goto")
    /\ UNCHANGED <<xvars, variant, persistentContext, initScripted, launched, url, context,
                   pageTitle, html, failedAt, resp>>

\* goto resolves: the title call
GotoOk(r) ==
    /\ pc[r] = "goto"
    /\ Start(r, "title")
    /\ UNCHANGED <<xvars, variant, persistentContext, initScripted, launched, url, context,
                   page, pageTitle, html, failedAt, resp>>

\* title resolves with t: the challenge test, then the challenge wait or the settle wait
TitleOk(r, t) ==
    /\ pc[r] = "title"
    /\ pageTitle' = [pageTitle EXCEPT ![r] = <<t>>]
    /\ Start(r, IF IsChallenge(t) THEN "challengeWait" ELSE "settle")
    /\ UNCHANGED <<xvars, variant, persistentContext, initScripted, launched, url, context,
                   page, html, failedAt, resp>>

\* the challenge wait is over: the settle wait
ChallengeWaitOk(r) ==
    /\ pc[r] = "challengeWait"
    /\ Start(r, "settle")
    /\ UNCHANGED <<xvars, variant, persistentContext, initScripted, launched, url, context,
                   page, pageTitle, html, failedAt, resp>>

\* the settle wait is over: the scroll (page.evaluate)
SettleOk(r) ==
    /\ pc[r] = "settle"
    /\ Start(r, "scroll")
    /\ UNCHANGED <<xvars, variant, persistentContext, initScripted, launched, url, context,
                   page, pageTitle, html, failedAt, resp>>

\* the scroll resolves: the second wait
ScrollOk(r) ==
    /\ pc[r] = "scroll"
    /\ Start(r, "settle2")
    /\ UNCHANGED <<xvars, variant, persistentContext, initScripted, launched, url, context,
                   page, pageTitle, html, failedAt, resp>>

\* the second wait is over: page.content()
Settle2Ok(r) ==
    /\ pc[r] = "settle2"
    /\ Start(r, "content")
    /\ UNCHANGED <<xvars, variant, persistentContext, initScripted, launched, url, context,
                   page, pageTitle, html, failedAt, resp>>

\* content resolves with the markup of d: page.close()
ContentOk(r, d) ==
    /\ pc[r] = "content"
    /\ html' = [html EXCEPT ![r] = <<d>>]
    /\ Start(r, "close")
    /\ UNCHANGED <<xvars, variant, persistentContext, initScripted, launched, url, context,
                   page, pageTitle, failedAt, resp>>

\* close resolves: the extraction, which has no await, and the response
CloseOk(r) ==
    /\ pc[r] = "close"
    /\ page' = [page EXCEPT ![r] = "closed"]
    /\ hist' = [hist EXCEPT ![r] = Append(@, "extract")]
    /\ LET res == Extracted[html[r][1]]
       IN  IF res.threw
           THEN Catch(r, "Invalid URL")
           ELSE Respond(r, 200, [title |-> res.title, videos |-> res.videos,
                                 images |-> res.images, zips |-> res.zips])
    /\ UNCHANGED <<xvars, variant, persistentContext, initScripted, launched, url, context,
                   pageTitle, html, failedAt>>

\* the operation r awaits rejects with msg: the inner empty catch of the second
\* server, else the catch block of the handler
Reject(r, msg) ==
    /\ pc[r] \in Operations
    /\ failedAt' = [failedAt EXCEPT ![r] = Append(@, pc[r])]
    /\ IF Swallowed(variant, pc[r])
       THEN Start(r, "settle") /\ UNCHANGED resp
       ELSE Catch(r, msg) /\ UNCHANGED hist
    /\ UNCHANGED <<xvars, variant, persistentContext, initScripted, launched, url, context,
                   page, pageTitle, html>>

Next ==
    \E r \in Req :
        \/ \E u \in Bodies : Receive(r, u)
        \/ LaunchOk(r)
        \/ InitScriptOk(r)
        \/ NewPageOk(r)
        \/ GotoOk(r)
        \/ \E t \in Titles : TitleOk(r, t)
        \/ ChallengeWaitOk(r)
        \/ SettleOk(r)
        \/ ScrollOk(r)
        \/ Settle2Ok(r)
        \/ \E d \in Pages : ContentOk(r, d)
        \/ CloseOk(r)
        \/ \E msg \in Messages : Reject(r, msg)

Spec == Init /\ [][Next]_vars

\* the browser operation request r awaits completes or fails
Settled(r) ==
    \/ LaunchOk(r)
    \/ InitScriptOk(r)
    \/ NewPageOk(r)
    \/ GotoOk(r)
    \/ \E t \in Titles : TitleOk(r, t)
    \/ ChallengeWaitOk(r)
    \/ SettleOk(r)
    \/ ScrollOk(r)
    \/ Settle2Ok(r)
    \/ \E d \in Pages : ContentOk(r, d)
    \/ CloseOk(r)
    \/ \E msg \in Messages : Reject(r, msg)

\* the server with every browser operation completing or failing in the end
SpecFair == Spec /\ \A r \in Req : WF_vars(Settled(r))

(***************************************************************************)
(* The extraction followed step by step, on every document of a bounded    *)
(* family: what the handler does between cheerio.load and the response,    *)
(* one turn of a loop at a time.  It has no await: no other request runs   *)
(* in between.                                                             *)
(***************************************************************************)
\* the h1.ipsType_pageTitle elements a document may have
Headings ==
    { <<>>,
      <<[text |-> " Thread one ", span |-> <<"\n Thread one ">>]>>,
      <<[text |-> "  Plain heading\n", span |-> NoAttr]>>,
      <<[text |-> " Fallback  ", span |-> <<"  ">>]>>,
      <<[text |-> " \n ", span |-> <<"">>]>> }

\* the a and img elements a content block may hold
NodePool ==
    { Anchor(<<"https://upfiles.com/f/1">>),
      Anchor(<<"https://vidoza.net/v/1">>),
      Anchor(<<"https://vidoza.net.upfiles.com/v/2">>),
      Anchor(<<"https://x.com/a-full.png ">>),
      Anchor(<<"http://">>),
      Img(<<"https://x.com/a.png">>, NoAttr, NoAttr),
      Img(<<"https://x.com/a.png">>, NoAttr, <<" https://x.com/a-full.png ">>),
      Img(<<"https://x.com/a.png">>, NoAttr, <<"/full/a.jpg">>),
      Img(NoAttr, <<"https://x.com/B.JPEG?w=9">>, <<"https://upfiles.com/f/1">>),
      Img(<<"/thumbs/c.gif">>, NoAttr, <<"https://x.com/a-full.png">>) }

\* the sequences of at most MaxNodes elements
NodeSeqs == UNION {[1..n -> NodePool] : n \in 0..MaxNodes}

\* the ways to cut n elements into MaxBlocks consecutive blocks
Cuts(n) ==
    {c \in [0..MaxBlocks -> 0..n] :
        /\ c[0] = 0
        /\ c[MaxBlocks] = n
        /\ \A b \in 1..MaxBlocks : c[b - 1] <= c[b]}

\* the document with heading h whose elements ns are cut into blocks at c
Doc(h, ns, c) ==
    [h1 |-> h, blocks |-> [b \in 1..MaxBlocks |-> SubSeq(ns, c[b - 1] + 1, c[b])]]

\* $wrap.find('img')
ImgsOf(block) == SelectSeq(block, LAMBDA n : n.tag = "img")

\* cheerio.load has returned a document
Loaded ==
    /\ \E h \in Headings, ns \in NodeSeqs : \E c \in Cuts(Len(ns)) : dom = Doc(h, ns, c)
    /\ step = "title"
    /\ wrapIndex = 0
    /\ elemIndex = 0
    /\ blockLinks = <<>>
    /\ lists = NoLists
    /\ threadTitle = <<>>

ExtractInit ==
    /\ Loaded
    /\ variant \in {1, 2}
    /\ persistentContext = NoSession
    /\ initScripted = {}
    /\ launched = {}
    /\ pc = [r \in Req |-> "idle"]
    /\ url = [r \in Req |-> JsUndefined]
    /\ context = [r \in Req |-> NoSession]
    /\ page = [r \in Req |-> "none"]
    /\ pageTitle = [r \in Req |-> <<>>]
    /\ html = [r \in Req |-> <<>>]
    /\ hist = [r \in Req |-> <<>>]
    /\ failedAt = [r \in Req |-> <<>>]
    /\ resp = [r \in Req |-> NoResponse]

\* the title, then the three empty arrays
TitleStep ==
    /\ step = "title"
    /\ threadTitle' = <<ExtractTitle(dom)>>
    /\ step' = "wrap"
    /\ wrapIndex' = 1
    /\ UNCHANGED <<svars, dom, elemIndex, blockLinks, lists>>

\* contentWraps.each enters a block: its links array is filled
FindLinks ==
    /\ step = "wrap"
    /\ wrapIndex <= Len(dom.blocks)
    /\ blockLinks' = LinksOf(dom.blocks[wrapIndex])
    /\ step' = "links"
    /\ elemIndex' = 1
    /\ UNCHANGED <<svars, dom, wrapIndex, lists, threadTitle>>

\* one turn of links.forEach; an exception leaves for the catch block
ForEachLink ==
    /\ step = "links"
    /\ elemIndex <= Len(blockLinks)
    /\ lists' = ClassifyLink(blockLinks[elemIndex], lists)
    /\ step' = IF lists'.threw THEN "threw" ELSE "links"
    /\ elemIndex' = elemIndex + 1
    /\ UNCHANGED <<svars, dom, wrapIndex, blockLinks, threadTitle>>

\* links.forEach is over: $wrap.find('img').each begins
FindImgs ==
    /\ step = "links"
    /\ elemIndex > Len(blockLinks)
    /\ step' = "imgs"
    /\ elemIndex' = 1
    /\ UNCHANGED <<svars, dom, wrapIndex, blockLinks, lists, threadTitle>>

\* one turn of $wrap.find('img').each
EachImg ==
    /\ step = "imgs"
    /\ elemIndex <= Len(ImgsOf(dom.blocks[wrapIndex]))
    /\ lists' = CaptureImage(ImgsOf(dom.blocks[wrapIndex])[elemIndex], lists)
    /\ elemIndex' = elemIndex + 1
    /\ UNCHANGED <<svars, dom, step, wrapIndex, blockLinks, threadTitle>>

\* the block is done: contentWraps.each goes to the next one
NextWrap ==
    /\ step = "imgs"
    /\ elemIndex > Len(ImgsOf(dom.blocks[wrapIndex]))
    /\ step' = "wrap"
    /\ wrapIndex' = wrapIndex + 1
    /\ UNCHANGED <<svars, dom, elemIndex, blockLinks, lists, threadTitle>>

\* contentWraps.each is over: res.json({ title, videos, images, zips })
SendResult ==
    /\ step = "wrap"
    /\ wrapIndex > Len(dom.blocks)
    /\ step' = "sent"
    /\ UNCHANGED <<svars, dom, wrapIndex, elemIndex, blockLinks, lists, threadTitle>>

ExtractNext ==
    \/ TitleStep
    \/ FindLinks
    \/ ForEachLink
    \/ FindImgs
    \/ EachImg
    \/ NextWrap
    \/ SendResult

SpecExtract == ExtractInit /\ [][ExtractNext]_vars

(***************************************************************************)
(* Properties                                                              *)
(***************************************************************************)
\* position of operation op in the history h, 0 when h does not hold it
Position(h, op) ==
    IF \E i \in 1..Len(h) : h[i] = op THEN CHOOSE i \in 1..Len(h) : h[i] = op ELSE 0

Range(list) == {list[i] : i \in 1..Len(list)}

Last(h) == h[Len(h)]

\* the allow-list as the interface documents it
HasAllowedPrefix(s) ==
    \/ StartsWith(s, "http://dropmms.co")
    \/ StartsWith(s, "https://dropmms.co")
    \/ StartsWith(s, "https://videmms24.com")

\* the url values that are strings outside the allow-list
DisallowedStrings == {b \in Bodies : b.kind = "string" /\ ~HasAllowedPrefix(b.str)}

\* the titles that carry a challenge signature
ChallengeTitles ==
    {t \in Titles : Includes(t, "Just a moment") \/ Includes(t, "Attention Required")}

\* the steps of the navigation, from goto to the capture of the markup
NavigationSteps == {"goto", "title", "challengeWait", "settle", "scroll", "settle2", "content"}

\* request r has not touched the pipeline: no session asked for, made or got, no page
PipelineUntouched(r) ==
    /\ hist[r] = <<>>
    /\ r \notin launched
    /\ context[r] = NoSession
    /\ page[r] = "none"

\* C1: requests that call getPersistentContext together while there is no session
\* cause one launch only (no two launches are ever in flight together), and every
\* caller receives the same session instance.
C1_OneLaunchForConcurrentCallers ==
    \A r1, r2 \in Req :
        r1 # r2 =>
            /\ ~(pc[r1] = "launchPersistentContext" /\ pc[r2] = "launchPersistentContext")
            /\ (context[r1] # NoSession /\ context[r2] # NoSession
                    => context[r1] = context[r2])

\* C2: when a request has sent its response, a page it opened is closed, on the
\* 200 path and on every 500 path.
C2_PageClosedAtResponse ==
    \A r \in Req : (pc[r] = "done" /\ page[r] # "none") => page[r] = "closed"

\* C3: a request whose session construction failed, at the launch or at the
\* registration of the init script, is answered 500 and the session it was
\* constructing is not the shared session, so that the next call constructs anew.
C3_FailedConstructionLeavesNoSession ==
    \A r \in Req :
        (failedAt[r] # <<>> /\ failedAt[r][1] \in {"launchPersistentContext", "addInitScript"})
            => /\ pc[r] = "done"
               /\ resp[r].status = 500
               /\ persistentContext # r

\* C4: once a session has been constructed the shared session is that instance for
\* ever: no step of any request, failing or not, replaces it, and no further
\* launch is called.
C4_SessionNeverReplaced ==
    [][persistentContext # NoSession
           => persistentContext' = persistentContext /\ launched' = launched]_vars

\* C5: in a 200 response no URL is in more than one of videos, images and zips.
C5_ListsDisjoint ==
    \A r \in Req :
        resp[r].status = 200 =>
            /\ Range(resp[r].body.videos) \cap Range(resp[r].body.images) = {}
            /\ Range(resp[r].body.videos) \cap Range(resp[r].body.zips) = {}
            /\ Range(resp[r].body.images) \cap Range(resp[r].body.zips) = {}

\* the links of a document in the order the handler meets them
RECURSIVE AllLinks(_, _)
AllLinks(blocks, i) ==
    IF i > Len(blocks) THEN <<>> ELSE LinksOf(blocks[i]) \o AllLinks(blocks, i + 1)

\* the well-formed links of each document whose host is a file host, a video host
GoodZips ==
    [d \in Pages |-> {h \in Range(AllLinks(d.blocks, 1)) :
                        ParseUrl(h).ok /\ SomeIncluded(zipDomains, ParseUrl(h).hostname)}]

GoodVideos ==
    [d \in Pages |-> {h \in Range(AllLinks(d.blocks, 1)) :
                        /\ ParseUrl(h).ok
                        /\ ~SomeIncluded(zipDomains, ParseUrl(h).hostname)
                        /\ SomeIncluded(videoDomains, ParseUrl(h).hostname)}]

\* the documents with a link that is no URL
MalformedPages == {d \in Pages : \E h \in Range(AllLinks(d.blocks, 1)) : ~ParseUrl(h).ok}

\* C6: a request whose markup holds a malformed link is still answered 200, with
\* every well-formed file-host link in zips and every well-formed video-host link
\* in videos.
C6_MalformedLinkSkipped ==
    \A r \in Req :
        (pc[r] = "done" /\ page[r] = "closed" /\ html[r][1] \in MalformedPages)
            => /\ resp[r].status = 200
               /\ GoodZips[html[r][1]] \subseteq Range(resp[r].body.zips)
               /\ GoodVideos[html[r][1]] \subseteq Range(resp[r].body.videos)

\* C7: a request one of whose navigation steps failed has been answered 500 with
\* error and details, and the failed step is the last operation it started.
C7_NavigationFailureIs500 ==
    \A r \in Req :
        (failedAt[r] # <<>> /\ failedAt[r][1] \in NavigationSteps)
            => /\ pc[r] = "done"
               /\ resp[r].status = 500
               /\ DOMAIN resp[r].body = {"error", "details"}
               /\ Last(hist[r]) = failedAt[r][1]

\* C8: a request whose body has no url, or a url that is not a string, is answered
\* 400 and never touches the pipeline.
C8_InvalidUrlIs400 ==
    \A r \in Req :
        (pc[r] # "idle" /\ url[r].kind # "string")
            => /\ pc[r] = "done"
               /\ resp[r].status = 400
               /\ PipelineUntouched(r)

C8_Witness ==
    \E r \in Req : url[r] = JsNumber(7) /\ pc[r] = "done" /\ resp[r].status = 400

\* C9 as stated: every string url outside the allow-list is answered 403 and never
\* touches the pipeline.
C9_DisallowedStringIs403 ==
    \A r \in Req :
        (pc[r] # "idle" /\ url[r] \in DisallowedStrings)
            => /\ pc[r] = "done"
               /\ resp[r].status = 403
               /\ PipelineUntouched(r)

\* C9 amended: every non-empty string url outside the allow-list is answered 403,
\* the empty string is answered 400, and neither touches the pipeline.
C9_NonEmptyDisallowedStringIs403 ==
    \A r \in Req :
        (pc[r] # "idle" /\ url[r] \in DisallowedStrings)
            => /\ pc[r] = "done"
               /\ resp[r].status = (IF url[r].str = "" THEN 400 ELSE 403)
               /\ PipelineUntouched(r)

C9_Witness ==
    \E r \in Req :
        /\ url[r] = JsString("see https://dropmms.co/t/1")
        /\ pc[r] = "done"
        /\ resp[r].status = 403

\* C10: a request that read a title with a challenge signature entered the
\* challenge wait after goto, and before content if it got that far.
C10_ChallengeWaitBeforeCapture ==
    \A r \in Req :
        (pageTitle[r] # <<>> /\ pageTitle[r][1] \in ChallengeTitles)
            => /\ Position(hist[r], "goto") > 0
               /\ Position(hist[r], "challengeWait") > Position(hist[r], "goto")
               /\ Position(hist[r], "content") > 0
                      => Position(hist[r], "content") > Position(hist[r], "challengeWait")

C10_Witness ==
    \E r \in Req :
        /\ pageTitle[r] = <<"Attention Required! | Cloudflare">>
        /\ Position(hist[r], "content") > 0
        /\ resp[r].status = 200

(***************************************************************************)
(* Properties of the extraction                                            *)
(***************************************************************************)
\* the three output lists of an accumulator
ListsOf(acc) == <<acc.videos, acc.images, acc.zips>>

NoDuplicates(list) == \A i, j \in 1..Len(list) : list[i] = list[j] => i = j

\* C11: at every point of the extraction no list holds a URL twice, however often
\* the URL occurs in the content blocks, and a step that brings no new URL to a
\* list leaves that list as it was.
C11_EntriesUnique ==
    /\ [](\A k \in 1..3 : NoDuplicates(ListsOf(lists)[k]))
    /\ [][\A k \in 1..3 :
            Range(ListsOf(lists')[k]) = Range(ListsOf(lists)[k])
                => ListsOf(lists')[k] = ListsOf(lists)[k]]_vars

\* the same file-host link in both blocks, listed once
C11_Witness ==
    /\ step = "sent"
    /\ dom.blocks[1] = <<Anchor(<<"https://upfiles.com/f/1">>)>>
    /\ dom.blocks[2] = <<Anchor(<<"https://upfiles.com/f/1">>)>>
    /\ lists.zips = <<"https://upfiles.com/f/1">>

\* the elements of the content blocks of document d
NodesOf(d) == UNION {Range(d.blocks[b]) : b \in 1..Len(d.blocks)}

\* the src of an img, its data-src when it has no src
OwnSrc(n) == IF n.src # NoAttr /\ n.src[1] # "" THEN n.src[1] ELSE AttrOrEmpty(n.dataSrc)

\* the path of u, without its query string, ends in a recognized image extension
RecognizedImage(u) ==
    \E i \in 1..Len(imageExtensions) : EndsWith(BeforeQuery(ToLowerCase(u)), imageExtensions[i])

\* the img elements of the pool that image discovery keeps
DiscoveredImgs ==
    {n \in NodePool : n.tag = "img" /\ StartsWith(OwnSrc(n), "http") /\ RecognizedImage(OwnSrc(n))}

\* the discovered imgs inside an anchor whose href has a recognized image extension
UpgradedImgs ==
    {n \in DiscoveredImgs : n.parentHref # NoAttr /\ RecognizedImage(Trim(n.parentHref[1]))}

\* what the images list is to get for each discovered img
ImageEntry ==
    [n \in DiscoveredImgs |-> IF n \in UpgradedImgs THEN Trim(n.parentHref[1]) ELSE OwnSrc(n)]

\* C12: in a result the images list holds, for every discovered img inside an
\* anchor whose href has a recognized image extension, the href of the anchor, for
\* every other discovered img its own src, and nothing else (so the src of an
\* upgraded img is not listed on its account).
C12_AnchorHrefPreferred ==
    step = "sent"
        => Range(lists.images) = {ImageEntry[n] : n \in NodesOf(dom) \cap DiscoveredImgs}

\* an img inside an anchor to the full picture, and an img inside a file-host anchor
C12_Witness ==
    /\ step = "sent"
    /\ dom.blocks[1] = <<Img(<<"https://x.com/a.png">>, NoAttr, <<" https://x.com/a-full.png ">>)>>
    /\ dom.blocks[2] = <<Img(NoAttr, <<"https://x.com/B.JPEG?w=9">>, <<"https://upfiles.com/f/1">>)>>
    /\ lists.images = <<"https://x.com/a-full.png", "https://x.com/B.JPEG?w=9">>

\* the links link discovery makes of the anchors of the pool
LinkPool == UNION {Range(LinksOf(<<n>>)) : n \in NodePool}

\* those that are URLs, each with its hostname in lower case
HostnameOf ==
    [h \in {l \in LinkPool : ParseUrl(l).ok} |-> ToLowerCase(ParseUrl(h).hostname)]

\* the links whose hostname holds a file-host substring, a video-host substring
ZipHosted == {h \in DOMAIN HostnameOf : \E i \in 1..Len(zipDomains) : Includes(HostnameOf[h], zipDomains[i])}

VideoHosted ==
    {h \in DOMAIN HostnameOf : \E i \in 1..Len(videoDomains) : Includes(HostnameOf[h], videoDomains[i])}

\* C13: the turn of links.forEach for a link whose hostname holds both a file-host
\* and a video-host substring puts the link in zips and leaves videos (and images)
\* as they were; the turn for a link whose hostname holds neither leaves all three
\* lists as they were.
C13_ZipBeforeVideo ==
    [][(step = "links" /\ elemIndex <= Len(blockLinks)) =>
          LET href == blockLinks[elemIndex]
          IN  /\ href \in ZipHosted \cap VideoHosted
                    => /\ InList(lists'.zips, href)
                       /\ lists'.videos = lists.videos
                       /\ lists'.images = lists.images
              /\ href \in DOMAIN HostnameOf \ (ZipHosted \cup VideoHosted)
                    => ListsOf(lists') = ListsOf(lists)]_vars

\* a link to a host with both substrings and a link to a host with neither
C13_Witness ==
    /\ step = "sent"
    /\ dom.blocks[1] = <<Anchor(<<"https://vidoza.net.upfiles.com/v/2">>),
                         Anchor(<<"https://x.com/a-full.png ">>)>>
    /\ "https://vidoza.net.upfiles.com/v/2" \in ZipHosted \cap VideoHosted
    /\ "https://x.com/a-full.png" \in DOMAIN HostnameOf \ (ZipHosted \cup VideoHosted)
    /\ lists = [NoLists EXCEPT !.zips = <<"https://vidoza.net.upfiles.com/v/2">>]

\* the title each heading of the family is to give
ExpectedTitle ==
    [h \in Headings |->
        IF h # <<>> /\ h[1].span # NoAttr /\ Trim(h[1].span[1]) # ""
        THEN Trim(h[1].span[1])
        ELSE IF h # <<>> /\ Trim(h[1].text) # "" THEN Trim(h[1].text)
        ELSE "Untitled Thread"]

\* the anchors of the pool whose href, a link by its prefix, is no URL
MalformedAnchors == {n \in NodePool : \E l \in Range(LinksOf(<<n>>)) : ~ParseUrl(l).ok}

\* C14: the title extracted is the trimmed text of the first nested span when that
\* is not empty, else the trimmed text of the heading when that is not empty, else
\* 'Untitled Thread'; a document without title heading gets 'Untitled Thread', and
\* the extraction fails for no reason other than a link that is no URL, so that
\* such a document is still answered 200.
C14_TitleFallbacks ==
    /\ threadTitle # <<>> => threadTitle[1] = ExpectedTitle[dom.h1]
    /\ (threadTitle # <<>> /\ dom.h1 = <<>>) => threadTitle[1] = "Untitled Thread"
    /\ step = "threw" => NodesOf(dom) \cap MalformedAnchors # {}
    /\ step = "sent" => threadTitle # <<>>

\* a document without title heading and with a file-host link, answered
C14_Witness ==
    /\ step = "sent"
    /\ dom.h1 = <<>>
    /\ threadTitle = <<"Untitled Thread">>
    /\ lists.zips = <<"https://upfiles.com/f/1">>

(***************************************************************************)
(* Properties of the navigation                                            *)
(***************************************************************************)
\* the phase each step of the navigation belongs to: NAVIGATING (1),
\* CHALLENGE_CHECK (2), CHALLENGE_WAIT (3), SETTLING (4), SCROLLING (5), CAPTURED (6)
PhaseOf ==
    [op \in NavigationSteps |->
        CASE op = "goto"          -> 1
          [] op = "title"         -> 2
          [] op = "challengeWait" -> 3
          [] op = "settle"        -> 4
          [] op = "scroll"        -> 5
          [] op = "settle2"       -> 5
          [] op = "content"       -> 6]

\* the navigation steps request r has started, in order
NavigationOf(r) == SelectSeq(hist[r], LAMBDA op : op \in NavigationSteps)

\* C15: the navigation steps a request has started begin with goto, never go back
\* to an earlier phase and never repeat a step (so goto and the challenge wait are
\* started at most once, also after a step has failed), and the challenge wait is
\* started only after a title with a challenge signature was read.
C15_PhasesInOrder ==
    \A r \in Req :
        LET nav == NavigationOf(r)
        IN  /\ nav # <<>> => nav[1] = "goto"
            /\ \A i, j \in 1..Len(nav) :
                   i < j => PhaseOf[nav[i]] <= PhaseOf[nav[j]] /\ nav[i] # nav[j]
            /\ Position(nav, "challengeWait") > 0
                   => /\ pageTitle[r] # <<>>
                      /\ pageTitle[r][1] \in ChallengeTitles
                      /\ Position(nav, "challengeWait") = Position(nav, "title") + 1

\* a request that went through all six phases, the challenge wait included
C15_Witness ==
    \E r \in Req :
        /\ NavigationOf(r) = <<"goto", "title", "challengeWait", "settle", "scroll",
                               "settle2", "content">>
        /\ pageTitle[r] = <<"Just a moment...">>
        /\ pc[r] = "done"

(***************************************************************************)
(* Properties of the extraction, continued                                 *)
(***************************************************************************)
RECURSIVE Flat(_, _)
\* the elements of the blocks from block b on, in document order
Flat(blocks, b) == IF b > Len(blocks) THEN <<>> ELSE blocks[b] \o Flat(blocks, b + 1)

\* the list an element of the pool is a candidate for and the URL it brings:
\* <<list, URL>>, or <<>> when it brings none
Candidate ==
    [n \in NodePool |->
        IF n.tag = "a"
        THEN LET l == LinksOf(<<n>>)
             IN  IF l = <<>> THEN <<>>
                 ELSE IF l[1] \in ZipHosted THEN <<"zips", l[1]>>
                 ELSE IF l[1] \in VideoHosted THEN <<"videos", l[1]>>
                 ELSE <<>>
        ELSE IF n \in DiscoveredImgs THEN <<"images", ImageEntry[n]>> ELSE <<>>]

\* the place in document order where the traversal of the elements ns first meets
\* URL u as a candidate for list name, 0 when it never does
FirstMet(ns, name, u) ==
    LET at == {i \in 1..Len(ns) : Candidate[ns[i]] = <<name, u>>}
    IN  IF at = {} THEN 0 ELSE CHOOSE i \in at : \A j \in at : i <= j

\* the entries of list are in the order in which the traversal first meets them
InFirstMetOrder(ns, name, list) ==
    \A i, j \in 1..Len(list) :
        i < j => /\ FirstMet(ns, name, list[i]) > 0
                 /\ FirstMet(ns, name, list[i]) < FirstMet(ns, name, list[j])

\* C16: in a result the entries of each list are in first-met order of the
\* document: blocks in document order, elements in document order inside a block.
C16_FirstSeenOrder ==
    step = "sent" =>
        LET ns == Flat(dom.blocks, 1)
        IN  /\ InFirstMetOrder(ns, "videos", lists.videos)
            /\ InFirstMetOrder(ns, "images", lists.images)
            /\ InFirstMetOrder(ns, "zips", lists.zips)

\* two file-host links, one in each block
C16_Witness ==
    /\ step = "sent"
    /\ dom.blocks[1] = <<Anchor(<<"https://vidoza.net.upfiles.com/v/2">>)>>
    /\ dom.blocks[2] = <<Anchor(<<"https://upfiles.com/f/1">>)>>
    /\ lists.zips = <<"https://vidoza.net.upfiles.com/v/2", "https://upfiles.com/f/1">>

(***************************************************************************)
(* Properties of the shared session, continued                             *)
(***************************************************************************)
\* C17: a request that has called newPage called it on a session on which
\* addInitScript had completed.
C17_InitScriptBeforeNewPage ==
    \A r \in Req : pc[r] = "newPage" => context[r] \in initScripted

(***************************************************************************)
(* Properties of the extraction, continued                                 *)
(***************************************************************************)
\* C18: every entry of videos, images and zips in a result starts with 'http'.
C18_EntriesAbsolute ==
    step = "sent" =>
        \A k \in 1..3 : \A i \in 1..Len(ListsOf(lists)[k]) :
            StartsWith(ListsOf(lists)[k][i], "http")

(***************************************************************************)
(* Properties of the handler, continued                                    *)
(***************************************************************************)
\* C19: every request received is answered in the end; the handler returns with a
\* response of status 400, 403, 200 or 500 sent, sends none before, and a
\* response sent is never followed by another.
C19_ExactlyOneResponse ==
    /\ \A r \in Req : (pc[r] # "idle") ~> (pc[r] = "done")
    /\ [](\A r \in Req :
             IF pc[r] = "done" THEN resp[r].status \in {400, 403, 200, 500}
             ELSE resp[r] = NoResponse)
    /\ [][\A r \in Req : resp[r] # NoResponse => resp'[r] = resp[r]]_vars

\* both requests answered, one after the whole pipeline, one after a failed
\* operation
C19_Witness ==
    \E r1, r2 \in Req :
        /\ pc[r1] = "done" /\ resp[r1].status = 200
        /\ pc[r2] = "done" /\ resp[r2].status = 500 /\ failedAt[r2] = <<"goto">>

====
